---- MODULE Spec2Model ----
(***************************************************************************)
(* gocue: the CUE sheet parser (parser.go) and the document model with its *)
(* duration inference (the model file holding Timecode, Index, Track, File *)
(* and Cuesheet).                                                          *)
(*                                                                         *)
(* A Go string is modelled as the sequence of its runes, each rune a       *)
(* one-character TLA+ string; RuneLen gives a rune's length in UTF-8 bytes.*)
(* A pointer is modelled as the position of its target in the owning       *)
(* slice, 0 standing for nil.                                              *)
(***************************************************************************)
EXTENDS Integers, Sequences, FiniteSets, TLC

VARIABLES
    corpus,          \* the lines the io.Reader handed to Parse can deliver
    scanned,         \* number of lines bufio.Scanner has delivered so far
    text,            \* scanner.Text(): the raw line delivered last
    sheet,           \* Parse: sheet (the Cuesheet under construction)
    currentFile,     \* Parse: currentFile (*File; position in sheet.Files, 0 = nil)
    currentTrack,    \* Parse: currentTrack (*Track; [f, t] position, NilTrack = nil)
    pendingIndices,  \* Parse: pendingIndices
    lineNum,         \* Parse: lineNum
    pc,              \* "scan": in the loop; "done": returned a sheet; "failed": returned an error
    ret,             \* what Parse returned: [sheet, err]
    call,            \* the caller's last Track.Duration() on the returned sheet: [ref, value]
    conv,            \* a caller converting a Timecode or a frame count there and back: [kind, step, in, mid, out]
    tok              \* a call of smartSplit: [step, line, res]

vars == <<corpus, scanned, text, sheet, currentFile, currentTrack,
          pendingIndices, lineNum, pc, ret, call, conv, tok>>

\* Number of lines read from one input.
MaxLines == 6

-----------------------------------------------------------------------------
(* Runes and strings *)

QUOTE == "\""
SPACE == " "
TAB == "\t"

\* UTF-8 length of a rune in bytes (what `for i, r := range line` advances i by).
RuneLen(r) == IF r \in {"é", "É"} THEN 2 ELSE 1

RECURSIVE ByteLen(_)
\* len(line): the length of a Go string in bytes.
ByteLen(s) == IF s = <<>> THEN 0 ELSE RuneLen(Head(s)) + ByteLen(Tail(s))

LowerRunes == <<"a","b","c","d","e","f","g","h","i","j","k","l","m",
                "n","o","p","q","r","s","t","u","v","w","x","y","z","é">>
UpperRunes == <<"A","B","C","D","E","F","G","H","I","J","K","L","M",
                "N","O","P","Q","R","S","T","U","V","W","X","Y","Z","É">>

ToUpperRune(r) ==
    IF \E i \in 1..Len(LowerRunes) : LowerRunes[i] = r
    THEN UpperRunes[CHOOSE i \in 1..Len(LowerRunes) : LowerRunes[i] = r]
    ELSE r

\* strings.ToUpper
ToUpper(s) == [i \in 1..Len(s) |-> ToUpperRune(s[i])]

IsSpace(r) == r \in {SPACE, TAB}

RECURSIVE TrimLeft(_)
TrimLeft(s) ==
    IF s # <<>> /\ IsSpace(Head(s)) THEN TrimLeft(Tail(s)) ELSE s

RECURSIVE TrimRight(_)
TrimRight(s) ==
    IF s # <<>> /\ IsSpace(s[Len(s)]) THEN TrimRight(SubSeq(s, 1, Len(s) - 1)) ELSE s

\* strings.TrimSpace
TrimSpace(s) == TrimRight(TrimLeft(s))

RECURSIVE Join(_, _)
\* strings.Join(elems, sep)
Join(elems, sep) ==
    IF elems = <<>> THEN <<>>
    ELSE IF Len(elems) = 1 THEN elems[1]
    ELSE elems[1] \o sep \o Join(Tail(elems), sep)

RECURSIVE Split(_, _)
\* strings.Split(s, sep) for a one-rune separator
Split(s, sep) ==
    IF \A i \in 1..Len(s) : s[i] # sep THEN <<s>>
    ELSE LET k == CHOOSE i \in 1..Len(s) :
                     s[i] = sep /\ \A j \in 1..(i - 1) : s[j] # sep
         IN <<SubSeq(s, 1, k - 1)>> \o Split(SubSeq(s, k + 1, Len(s)), sep)

Digits == <<"0","1","2","3","4","5","6","7","8","9">>
IsDigit(r) == \E i \in 1..10 : Digits[i] = r
DigitVal(r) == (CHOOSE i \in 1..10 : Digits[i] = r) - 1

RECURSIVE DecVal(_, _)
DecVal(s, acc) ==
    IF s = <<>> THEN acc ELSE DecVal(Tail(s), acc * 10 + DigitVal(Head(s)))

\* strconv.Atoi: an optional sign, then one or more decimal digits.
\* (Values beyond the int range, which Atoi rejects, do not occur in the corpus.)
Atoi(s) ==
    LET signed == s # <<>> /\ Head(s) \in {"+", "-"}
        body == IF signed THEN Tail(s) ELSE s
    IN IF body = <<>> \/ \E i \in 1..Len(body) : ~IsDigit(body[i])
       THEN [ok |-> FALSE, val |-> 0]
       ELSE [ok |-> TRUE,
             val |-> IF signed /\ Head(s) = "-" THEN 0 - DecVal(body, 0)
                     ELSE DecVal(body, 0)]

NoErr == ""

-----------------------------------------------------------------------------
(* Timecode *)

FramesPerSecond == 75

Timecode(m, s, f) == [Minutes |-> m, Seconds |-> s, Frames |-> f]
ZeroTimecode == Timecode(0, 0, 0)

\* Go's int is 32 or 64 bits wide, depending on the build, and its arithmetic
\* wraps around silently.  The model takes the 32-bit build (GOARCH=386, arm):
\* the largest and the smallest int.  On a 64-bit build the same wrap-around
\* happens at 2^63.
MaxInt == 2147483647
MinInt == (0 - MaxInt) - 1

\* a + b on int, wrapping around modulo 2^32
WrapAdd(a, b) ==
    IF a > 0 /\ b > 0 /\ a > MaxInt - b
    THEN ((a - MaxInt) - 1) + ((b - MaxInt) - 1)
    ELSE IF a < 0 /\ b < 0 /\ a < MinInt - b
    THEN ((a + MaxInt) + 1) + ((b + MaxInt) + 1)
    ELSE a + b

RECURSIVE WrapMul(_, _)
\* a * k on int for a constant k >= 0, wrapping around modulo 2^32 (the
\* product itself when it fits, else by doubling)
WrapMul(a, k) ==
    IF k = 0 THEN 0
    ELSE IF a <= MaxInt \div k /\ a >= 0 - (MaxInt \div k) THEN a * k
    ELSE IF k % 2 = 0
    THEN LET h == WrapMul(a, k \div 2) IN WrapAdd(h, h)
    ELSE WrapAdd(WrapMul(a, k - 1), a)

\* Timecode.TotalFrames with the minutes not multiplied by the frame rate
TotalFrames_minutesNotScaled(t) ==
    WrapAdd(WrapAdd(WrapMul(t.Minutes, 60), WrapMul(t.Seconds, FramesPerSecond)),
            t.Frames)

TotalFrames(t) ==
    WrapAdd(WrapAdd(WrapMul(WrapMul(t.Minutes, 60), FramesPerSecond),
                    WrapMul(t.Seconds, FramesPerSecond)),
            t.Frames)

\* Go's integer division, which truncates toward zero.
Quot(a, b) == IF a >= 0 THEN a \div b ELSE 0 - ((0 - a) \div b)

\* (int64(t.TotalFrames()) * 1e9) / FramesPerSecond, in nanoseconds.  The
\* int64 product does not overflow for the timecodes of the corpus; it is
\* written here as f * 13333333 + f/3, which is the same number exactly
\* (1e9 = 75 * 13333333 + 25 and 25/75 = 1/3), so that no intermediate value
\* leaves the range of the model checker's integers.
AsDuration(t) ==
    LET f == TotalFrames(t) IN f * 13333333 + Quot(f, 3)

\* NewTimecodeFromFrames without the clamp of a negative frame count
NewTimecodeFromFrames_noClamp(totalFrames) ==
    LET n == totalFrames
        minutes == n \div (60 * FramesPerSecond)
        rest == n % (60 * FramesPerSecond)
    IN Timecode(minutes, rest \div FramesPerSecond, rest % FramesPerSecond)

NewTimecodeFromFrames(totalFrames) ==
    LET n == IF totalFrames < 0 THEN 0 ELSE totalFrames
        minutes == n \div (60 * FramesPerSecond)
        rest == n % (60 * FramesPerSecond)
    IN Timecode(minutes, rest \div FramesPerSecond, rest % FramesPerSecond)

\* parseTimecode: [err, tc]
parseTimecode(s) ==
    LET parts == Split(s, ":") IN
    IF Len(parts) # 3
    THEN [err |-> "timecode must be in MM:SS:FF format", tc |-> ZeroTimecode]
    ELSE LET minutes == Atoi(parts[1])
             seconds == Atoi(parts[2])
             frames == Atoi(parts[3])
         IN IF ~minutes.ok
            THEN [err |-> "invalid minutes value", tc |-> ZeroTimecode]
            ELSE IF ~seconds.ok
            THEN [err |-> "invalid seconds value", tc |-> ZeroTimecode]
            ELSE IF seconds.val > 59
            THEN [err |-> "seconds value cannot exceed 59", tc |-> ZeroTimecode]
            ELSE IF ~frames.ok
            THEN [err |-> "invalid frames value", tc |-> ZeroTimecode]
            ELSE IF frames.val >= FramesPerSecond
            THEN [err |-> "frames value must be less than 75", tc |-> ZeroTimecode]
            ELSE [err |-> NoErr,
                  tc |-> Timecode(minutes.val, seconds.val, frames.val)]

-----------------------------------------------------------------------------
(* Tokenizer *)

RECURSIVE splitLoop(_, _, _, _, _, _)
\* The loop of smartSplit from rune k on: i is the byte offset of rune k,
\* result / current / inQuote are the function's locals.  [err, parts]
splitLoop(line, k, i, result, current, inQuote) ==
    IF k > Len(line)
    THEN [err |-> NoErr,
          parts |-> IF Len(current) > 0 THEN Append(result, current) ELSE result]
    ELSE LET r == line[k]
             inQuote2 == IF r = QUOTE THEN ~inQuote ELSE inQuote
             flush == IsSpace(r) /\ ~inQuote /\ Len(current) > 0
             result2 == IF flush THEN Append(result, current) ELSE result
             current2 ==
                 IF r = QUOTE THEN current
                 ELSE IF IsSpace(r)
                      THEN (IF inQuote THEN Append(current, r)
                            ELSE <<>>)
                      ELSE Append(current, r)
             \* the check inside `default:`, reached only when r is neither a
             \* quote nor a space nor a tab
             quotedCommand ==
                 r # QUOTE /\ ~IsSpace(r)
                 /\ Len(result) = 0 /\ Len(current) = 0 /\ r = QUOTE
         IN IF quotedCommand
            THEN [err |-> "command cannot be quoted", parts |-> <<>>]
            ELSE IF i = ByteLen(line) - 1 /\ inQuote2
            THEN [err |-> "mismatched quotes", parts |-> <<>>]
            ELSE splitLoop(line, k + 1, i + RuneLen(r), result2, current2, inQuote2)

\* smartSplit: [err, parts]
smartSplit(line) == splitLoop(line, 1, 0, <<>>, <<>>, FALSE)

-----------------------------------------------------------------------------
(* Document model *)

NilTrack == [f |-> 0, t |-> 0]

\* &Cuesheet{}
NewSheet ==
    [Title |-> <<>>, Performer |-> <<>>, Songwriter |-> <<>>, Catalog |-> <<>>,
     Files |-> <<>>, Rem |-> <<>>, CDTextFile |-> <<>>]

\* &File{Name: name, Type: type}; parentSheet is TRUE when it points to the sheet
NewFile(name, type) ==
    [Name |-> name, Type |-> type, Tracks |-> <<>>, parentSheet |-> FALSE]

\* &Track{Number: num, Type: type}; parentFile is a position in sheet.Files, 0 = nil
NewTrack(num, type) ==
    [Number |-> num, Type |-> type, Title |-> <<>>, Performer |-> <<>>,
     Songwriter |-> <<>>, ISRC |-> <<>>, Flags |-> <<>>, Indices |-> <<>>,
     Pregap |-> ZeroTimecode, Postgap |-> ZeroTimecode, parentFile |-> 0]

Index(num, time) == [Number |-> num, Time |-> time]

\* Track.StartTime: the time of the first index numbered 1, else the zero timecode
StartTime(t) ==
    IF \E i \in 1..Len(t.Indices) : t.Indices[i].Number = 1
    THEN t.Indices[CHOOSE i \in 1..Len(t.Indices) :
                       /\ t.Indices[i].Number = 1
                       /\ \A j \in 1..(i - 1) : t.Indices[j].Number # 1].Time
    ELSE ZeroTimecode

\* the positions [f, t] of the tracks of file f, in order
FileTrackRefs(s, f) == [t \in 1..Len(s.Files[f].Tracks) |-> [f |-> f, t |-> t]]

RECURSIVE TrackRefsFrom(_, _)
TrackRefsFrom(s, f) ==
    IF f > Len(s.Files) THEN <<>>
    ELSE FileTrackRefs(s, f) \o TrackRefsFrom(s, f + 1)

\* every track of every file, in file-then-track order
AllTrackRefs(s) == TrackRefsFrom(s, 1)

TrackAt(s, ref) == s.Files[ref.f].Tracks[ref.t]

\* File.getTrackDuration with the successor looked up by number anywhere in
\* the track list instead of directly after the track found
getTrackDuration_anySuccessor(s, f, trackNumber) ==
    LET allTracks == IF s.Files[f].parentSheet THEN AllTrackRefs(s)
                     ELSE FileTrackRefs(s, f)
        found == {i \in 1..Len(allTracks) :
                     TrackAt(s, allTracks[i]).Number = trackNumber}
        after == {i \in 1..Len(allTracks) :
                     TrackAt(s, allTracks[i]).Number = trackNumber + 1}
    IN IF found = {} \/ after = {} THEN 0
       ELSE LET i == CHOOSE x \in found : \A y \in found : x <= y
                n == CHOOSE x \in after : \A y \in after : x <= y
                currentTrack_ == TrackAt(s, allTracks[i])
                nextTrack == TrackAt(s, allTracks[n])
                startTime == AsDuration(StartTime(currentTrack_))
                nextStartTime == AsDuration(StartTime(nextTrack))
            IN IF currentTrack_.parentFile # nextTrack.parentFile THEN 0
               ELSE IF nextStartTime < startTime THEN 0
               ELSE nextStartTime - startTime

\* File.getTrackDuration, called on file f of sheet s
getTrackDuration(s, f, trackNumber) ==
    LET allTracks == IF s.Files[f].parentSheet THEN AllTrackRefs(s)
                     ELSE FileTrackRefs(s, f)
        found == {i \in 1..Len(allTracks) :
                     TrackAt(s, allTracks[i]).Number = trackNumber}
    IN IF found = {} THEN 0
       ELSE LET i == CHOOSE x \in found : \A y \in found : x <= y
                currentTrack_ == TrackAt(s, allTracks[i])
                hasNext == /\ i + 1 <= Len(allTracks)
                           /\ TrackAt(s, allTracks[i + 1]).Number = trackNumber + 1
            IN IF ~hasNext THEN 0
               ELSE LET nextTrack == TrackAt(s, allTracks[i + 1])
                        startTime == AsDuration(StartTime(currentTrack_))
                        nextStartTime == AsDuration(StartTime(nextTrack))
                    IN IF currentTrack_.parentFile # nextTrack.parentFile THEN 0
                       ELSE IF nextStartTime < startTime THEN 0
                       ELSE nextStartTime - startTime

\* Track.Duration computed from the track asked and the track directly after
\* it, instead of looking the track up by its number
Duration_ofTrackAsked(s, ref) ==
    LET t == TrackAt(s, ref)
        allTracks == AllTrackRefs(s)
        i == CHOOSE x \in 1..Len(allTracks) : allTracks[x] = ref
    IN IF t.parentFile = 0 \/ i + 1 > Len(allTracks) THEN 0
       ELSE LET nextTrack == TrackAt(s, allTracks[i + 1])
                startTime == AsDuration(StartTime(t))
                nextStartTime == AsDuration(StartTime(nextTrack))
            IN IF nextTrack.Number # t.Number + 1 THEN 0
               ELSE IF t.parentFile # nextTrack.parentFile THEN 0
               ELSE IF nextStartTime < startTime THEN 0
               ELSE nextStartTime - startTime

\* Track.Duration, called on the track at position ref of sheet s
Duration(s, ref) ==
    LET t == TrackAt(s, ref) IN
    IF t.parentFile = 0 THEN 0
    ELSE getTrackDuration(s, t.parentFile, t.Number)

-----------------------------------------------------------------------------
(* Parse: the command words *)

wREM == <<"R","E","M">>
wCATALOG == <<"C","A","T","A","L","O","G">>
wCDTEXTFILE == <<"C","D","T","E","X","T","F","I","L","E">>
wTITLE == <<"T","I","T","L","E">>
wPERFORMER == <<"P","E","R","F","O","R","M","E","R">>
wSONGWRITER == <<"S","O","N","G","W","R","I","T","E","R">>
wFILE == <<"F","I","L","E">>
wTRACK == <<"T","R","A","C","K">>
wINDEX == <<"I","N","D","E","X">>
wPREGAP == <<"P","R","E","G","A","P">>
wPOSTGAP == <<"P","O","S","T","G","A","P">>
wFLAGS == <<"F","L","A","G","S">>
wISRC == <<"I","S","R","C">>

\* the case labels of the command switch
Commands ==
    {wREM, wCATALOG, wCDTEXTFILE, wTITLE, wPERFORMER, wSONGWRITER, wFILE,
     wTRACK, wINDEX, wPREGAP, wPOSTGAP, wFLAGS, wISRC}

-----------------------------------------------------------------------------
(* Parse: one loop iteration.  Each case of the switch is an operator on the *)
(* parser's locals that yields their new values, or the cause of the error  *)
(* the case returns.                                                         *)

Ok(s, cf, ct, p) ==
    [err |-> NoErr, sheet |-> s, currentFile |-> cf, currentTrack |-> ct,
     pendingIndices |-> p]

Fail(cause) ==
    [err |-> cause, sheet |-> sheet, currentFile |-> currentFile,
     currentTrack |-> currentTrack, pendingIndices |-> pendingIndices]

\* the locals with one field of the track in scope replaced
WithTrack(tr) ==
    Ok([sheet EXCEPT !.Files[currentTrack.f].Tracks[currentTrack.t] = tr],
       currentFile, currentTrack, pendingIndices)

WithSheet(s) == Ok(s, currentFile, currentTrack, pendingIndices)

CurTrack == TrackAt(sheet, currentTrack)

\* the REM case storing only the first argument
caseREM_firstArgument(args) ==
    IF Len(args) > 0
    THEN WithSheet([sheet EXCEPT !.Rem = Append(@, args[1])])
    ELSE WithSheet(sheet)

caseREM(args) ==
    IF Len(args) > 0
    THEN WithSheet([sheet EXCEPT !.Rem = Append(@, Join(args, <<SPACE>>))])
    ELSE WithSheet(sheet)

caseCATALOG(args) ==
    IF Len(args) < 1 THEN Fail("CATALOG command requires an argument")
    ELSE WithSheet([sheet EXCEPT !.Catalog = args[1]])

caseCDTEXTFILE(args) ==
    IF Len(args) < 1 THEN Fail("CDTEXTFILE command requires an argument")
    ELSE WithSheet([sheet EXCEPT !.CDTextFile = args[1]])

caseTITLE(args) ==
    IF Len(args) < 1 THEN Fail("TITLE command requires an argument")
    ELSE IF currentTrack # NilTrack
    THEN WithTrack([CurTrack EXCEPT !.Title = args[1]])
    ELSE WithSheet([sheet EXCEPT !.Title = args[1]])

\* the PERFORMER case without the `currentTrack != nil` branch
casePERFORMER_alwaysSheet(args) ==
    IF Len(args) < 1 THEN Fail("PERFORMER command requires an argument")
    ELSE WithSheet([sheet EXCEPT !.Performer = args[1]])

casePERFORMER(args) ==
    IF Len(args) < 1 THEN Fail("PERFORMER command requires an argument")
    ELSE IF currentTrack # NilTrack
    THEN WithTrack([CurTrack EXCEPT !.Performer = args[1]])
    ELSE WithSheet([sheet EXCEPT !.Performer = args[1]])

caseSONGWRITER(args) ==
    IF Len(args) < 1 THEN Fail("SONGWRITER command requires an argument")
    ELSE IF currentTrack # NilTrack
    THEN WithTrack([CurTrack EXCEPT !.Songwriter = args[1]])
    ELSE WithSheet([sheet EXCEPT !.Songwriter = args[1]])

\* the FILE case without `currentTrack = nil`
caseFILE_keepsTrack(args) ==
    IF Len(args) < 2 THEN Fail("FILE command requires name and type arguments")
    ELSE LET file == NewFile(args[1], ToUpper(args[2]))
             files == Append(sheet.Files, file)
         IN Ok([sheet EXCEPT !.Files = files], Len(files), currentTrack, <<>>)

\* the FILE case without `pendingIndices = nil`
caseFILE_keepsPending(args) ==
    IF Len(args) < 2 THEN Fail("FILE command requires name and type arguments")
    ELSE LET file == NewFile(args[1], ToUpper(args[2]))
             files == Append(sheet.Files, file)
         IN Ok([sheet EXCEPT !.Files = files], Len(files), NilTrack, pendingIndices)

caseFILE(args) ==
    IF Len(args) < 2 THEN Fail("FILE command requires name and type arguments")
    ELSE LET file == NewFile(args[1], ToUpper(args[2]))
             files == Append(sheet.Files, file)
         IN Ok([sheet EXCEPT !.Files = files], Len(files), NilTrack, <<>>)

\* the TRACK case without `pendingIndices = nil` after the flush
caseTRACK_keepsPending(args) ==
    IF currentFile = 0 THEN Fail("TRACK command found outside of a FILE context")
    ELSE IF Len(args) < 2
    THEN Fail("TRACK command requires number and type arguments")
    ELSE LET num == Atoi(args[1]) IN
         IF ~num.ok THEN Fail("invalid track number: strconv.Atoi: invalid syntax")
         ELSE LET track == NewTrack(num.val, ToUpper(args[2]))
                  flushed == IF Len(pendingIndices) > 0
                             THEN [track EXCEPT !.Indices = @ \o pendingIndices]
                             ELSE track
                  tracks == Append(sheet.Files[currentFile].Tracks, flushed)
              IN Ok([sheet EXCEPT !.Files[currentFile].Tracks = tracks],
                    currentFile, [f |-> currentFile, t |-> Len(tracks)],
                    pendingIndices)

caseTRACK(args) ==
    IF currentFile = 0 THEN Fail("TRACK command found outside of a FILE context")
    ELSE IF Len(args) < 2
    THEN Fail("TRACK command requires number and type arguments")
    ELSE LET num == Atoi(args[1]) IN
         IF ~num.ok THEN Fail("invalid track number: strconv.Atoi: invalid syntax")
         ELSE LET track == NewTrack(num.val, ToUpper(args[2]))
                  flushed == IF Len(pendingIndices) > 0
                             THEN [track EXCEPT !.Indices = @ \o pendingIndices]
                             ELSE track
                  pending == IF Len(pendingIndices) > 0 THEN <<>>
                             ELSE pendingIndices
                  tracks == Append(sheet.Files[currentFile].Tracks, flushed)
              IN Ok([sheet EXCEPT !.Files[currentFile].Tracks = tracks],
                    currentFile, [f |-> currentFile, t |-> Len(tracks)], pending)

\* the INDEX case buffering the index also when a track is in scope
caseINDEX_buffersToo(args) ==
    IF Len(args) < 2
    THEN Fail("INDEX command requires number and timecode arguments")
    ELSE LET num == Atoi(args[1])
             timecode == parseTimecode(args[2])
         IN IF ~num.ok THEN Fail("invalid index number: strconv.Atoi: invalid syntax")
            ELSE IF timecode.err # NoErr
            THEN Fail("invalid timecode for INDEX: " \o timecode.err)
            ELSE LET index == Index(num.val, timecode.tc) IN
                 IF currentTrack # NilTrack
                 THEN Ok([sheet EXCEPT !.Files[currentTrack.f].Tracks[currentTrack.t].Indices
                                           = Append(@, index)],
                         currentFile, currentTrack, Append(pendingIndices, index))
                 ELSE IF currentFile # 0
                 THEN Ok(sheet, currentFile, currentTrack,
                         Append(pendingIndices, index))
                 ELSE Fail("INDEX command found outside of a FILE context")

caseINDEX(args) ==
    IF Len(args) < 2
    THEN Fail("INDEX command requires number and timecode arguments")
    ELSE LET num == Atoi(args[1])
             timecode == parseTimecode(args[2])
         IN IF ~num.ok THEN Fail("invalid index number: strconv.Atoi: invalid syntax")
            ELSE IF timecode.err # NoErr
            THEN Fail("invalid timecode for INDEX: " \o timecode.err)
            ELSE LET index == Index(num.val, timecode.tc) IN
                 IF currentTrack # NilTrack
                 THEN WithTrack([CurTrack EXCEPT !.Indices = Append(@, index)])
                 ELSE IF currentFile # 0
                 THEN Ok(sheet, currentFile, currentTrack,
                         Append(pendingIndices, index))
                 ELSE Fail("INDEX command found outside of a FILE context")

\* the PREGAP case writing to the first track of the current file
casePREGAP_firstTrack(args) ==
    IF currentTrack = NilTrack
    THEN Fail("PREGAP command found outside of a TRACK context")
    ELSE IF Len(args) < 1 THEN Fail("PREGAP command requires a timecode argument")
    ELSE LET timecode == parseTimecode(args[1]) IN
         IF timecode.err # NoErr
         THEN Fail("invalid timecode for PREGAP: " \o timecode.err)
         ELSE Ok([sheet EXCEPT !.Files[currentTrack.f].Tracks[1].Pregap = timecode.tc],
                 currentFile, currentTrack, pendingIndices)

casePREGAP(args) ==
    IF currentTrack = NilTrack
    THEN Fail("PREGAP command found outside of a TRACK context")
    ELSE IF Len(args) < 1 THEN Fail("PREGAP command requires a timecode argument")
    ELSE LET timecode == parseTimecode(args[1]) IN
         IF timecode.err # NoErr
         THEN Fail("invalid timecode for PREGAP: " \o timecode.err)
         ELSE WithTrack([CurTrack EXCEPT !.Pregap = timecode.tc])

casePOSTGAP(args) ==
    IF currentTrack = NilTrack
    THEN Fail("POSTGAP command found outside of a TRACK context")
    ELSE IF Len(args) < 1 THEN Fail("POSTGAP command requires a timecode argument")
    ELSE LET timecode == parseTimecode(args[1]) IN
         IF timecode.err # NoErr
         THEN Fail("invalid timecode for POSTGAP: " \o timecode.err)
         ELSE WithTrack([CurTrack EXCEPT !.Postgap = timecode.tc])

caseFLAGS(args) ==
    IF currentTrack = NilTrack
    THEN Fail("FLAGS command found outside of a TRACK context")
    ELSE WithTrack([CurTrack EXCEPT !.Flags = @ \o args])

\* the ISRC case storing the code uppercased
caseISRC_upper(args) ==
    IF currentTrack = NilTrack
    THEN Fail("ISRC command found outside of a TRACK context")
    ELSE IF Len(args) < 1 THEN Fail("ISRC command requires an argument")
    ELSE WithTrack([CurTrack EXCEPT !.ISRC = ToUpper(args[1])])

caseISRC(args) ==
    IF currentTrack = NilTrack
    THEN Fail("ISRC command found outside of a TRACK context")
    ELSE IF Len(args) < 1 THEN Fail("ISRC command requires an argument")
    ELSE WithTrack([CurTrack EXCEPT !.ISRC = args[1]])

\* the switch with a default case that rejects the command word
caseNone_rejects(args) == Fail("unknown command")

\* a command word that matches no case: the switch does nothing
caseNone(args) == WithSheet(sheet)

-----------------------------------------------------------------------------
(* The inputs: each corpus is a set of raw lines, and one input is a        *)
(* sequence of at most MaxLines lines of one corpus.                        *)

\* words separated by single spaces
L(words) == Join(words, <<SPACE>>)
Quoted(w) == <<QUOTE>> \o w \o <<QUOTE>>

lnFILE == L(<<wFILE, Quoted(<<"a">>), <<"w">>>>)
lnTRACK1 == L(<<wTRACK, <<"0","1">>, <<"a">>>>)
lnTRACK2 == L(<<wTRACK, <<"0","2">>, <<"a">>>>)
lnTRACK3 == L(<<wTRACK, <<"0","3">>, <<"a">>>>)
lnINDEX00 == L(<<wINDEX, <<"0","0">>, <<"0",":","0",":","0">>>>)
lnINDEX01 == L(<<wINDEX, <<"0","1">>, <<"0",":","0",":","1">>>>)

\* tracks, their numbers and their INDEX 01 times, over one or more files
DurationLines == {lnFILE, lnTRACK1, lnTRACK2, lnTRACK3, lnINDEX01}

\* blank lines, quoting, unknown commands
TokenLines ==
    { <<SPACE, TAB>>,
      <<TAB>> \o L(<<wREM, <<"a">>, <<>>, <<"b">>>>) \o <<SPACE>>,
      L(<<<<"t","i","t","l","e">>, Quoted(<<"a", SPACE, "b">>)>>),
      L(<<wTITLE, <<QUOTE, "x">>>>),
      L(<<wTITLE, <<QUOTE, "é">>>>),
      L(<<Quoted(wREM), <<"x">>>>),
      <<QUOTE, QUOTE>>,
      L(<<<<"F","O","O">>, <<"x">>>>),
      L(<<<<"F","O","O">>, <<QUOTE, "x">>>>) }

\* indices before and after TRACK, within and across files
IndexLines ==
    { lnFILE, lnTRACK1, lnINDEX00, lnINDEX01,
      L(<<wINDEX, <<"x">>, <<"0",":","0",":","0">>>>),
      L(<<wINDEX, <<"0","1">>, <<"0",":","6","0",":","0">>>>),
      L(<<wINDEX, <<"0","1">>, <<"0",":","0",":","7","5">>>>),
      L(<<wINDEX, <<"0","1">>, <<"0",":","0">>>>),
      L(<<wINDEX, <<"0","1">>>>) }

\* the commands that need a track in scope
TrackLines ==
    { lnFILE, lnTRACK1,
      L(<<wPREGAP, <<"0",":","0",":","2">>>>),
      L(<<wPOSTGAP, <<"0",":","0",":","3">>>>),
      L(<<wFLAGS, <<"D","C","P">>, <<"p","r","e">>>>),
      L(<<wISRC, <<"x">>>>),
      L(<<wTRACK, <<"a","a">>, <<"a">>>>),
      L(<<wTRACK, <<"0","1">>>>),
      L(<<wFILE, <<"a">>>>),
      L(<<wPREGAP>>),
      L(<<wPOSTGAP, <<"0",":","x",":","0">>>>),
      L(<<wISRC>>) }

\* the commands that set sheet or track metadata
MetaLines ==
    { lnFILE, lnTRACK1,
      L(<<wCATALOG, <<"1">>>>),
      L(<<wCDTEXTFILE, <<"c">>>>),
      L(<<wTITLE, <<"T">>, <<"u">>>>),
      L(<<wPERFORMER, <<"p">>>>),
      L(<<wSONGWRITER, <<"s">>>>),
      L(<<wCATALOG>>) }

\* timecode arguments with a signed field
SignedLines ==
    { lnFILE, lnTRACK1,
      L(<<wINDEX, <<"0","1">>, <<"0",":","-","1",":","0">>>>),
      L(<<wPREGAP, <<"-","1",":","0",":","0">>>>),
      L(<<wPOSTGAP, <<"0",":","0",":","-","1">>>>) }

\* remarks in sheet, file and track scope
RemLines ==
    { lnFILE, lnTRACK1,
      L(<<wREM>>),
      L(<<wREM, <<"x">>>>),
      L(<<wREM, Quoted(<<"a", SPACE, "b">>), <<>>, <<"c">>>>) }

Corpora ==
    {DurationLines, TokenLines, IndexLines, TrackLines, MetaLines, SignedLines,
     RemLines}

-----------------------------------------------------------------------------
(* Parse as a state machine *)

NilSheet == "nil"
SheetPtr == "sheet"
NoError == [line |-> 0, msg |-> NoErr]

\* fmt.Errorf("line %d: <cause>", lineNum)
LineError(n, cause) == [line |-> n, msg |-> cause]

\* no Duration call, no conversion and no tokenizer call has been made
NoCall == [ref |-> NilTrack, value |-> 0]
NoConv == [kind |-> "none", step |-> 0, in |-> 0, mid |-> 0, out |-> 0]
NoTok == [step |-> "none", line |-> <<>>, res |-> [err |-> NoErr, parts |-> <<>>]]

\* Parse is entered with its locals at their zero values
ParseEntry ==
    /\ scanned = 0
    /\ text = <<>>
    /\ sheet = NewSheet
    /\ currentFile = 0
    /\ currentTrack = NilTrack
    /\ pendingIndices = <<>>
    /\ lineNum = 0
    /\ pc = "scan"
    /\ ret = [sheet |-> NilSheet, err |-> NoError]
    /\ call = NoCall

Init ==
    /\ corpus \in Corpora
    /\ ParseEntry
    /\ conv = NoConv
    /\ tok = NoTok

\* scanner.Scan() delivers another line
CanScan == pc = "scan" /\ scanned < MaxLines

\* The head of the loop body on raw line `raw`: line is the trimmed text,
\* err and parts are what smartSplit(line) returns, command and args are
\* strings.ToUpper(parts[0]) and parts[1:] when there are parts.
Prepare(raw) ==
    LET line == TrimSpace(raw)
        split == IF line = <<>> THEN [err |-> NoErr, parts |-> <<>>]
                 ELSE smartSplit(line)
        some == split.err = NoErr /\ Len(split.parts) > 0
    IN [line |-> line, err |-> split.err, parts |-> split.parts,
        command |-> IF some THEN ToUpper(split.parts[1]) ELSE <<>>,
        args |-> IF some THEN Tail(split.parts) ELSE <<>>]

\* Prepare, tabulated over the lines of the corpora
Prepared == [raw \in UNION Corpora |-> Prepare(raw)]

\* the line reaches the switch with this command word
Dispatches(raw, command) ==
    /\ Prepared[raw].line # <<>>
    /\ Prepared[raw].err = NoErr
    /\ Len(Prepared[raw].parts) > 0
    /\ Prepared[raw].command = command

Args(raw) == Prepared[raw].args

\* the loop body with lineNum++ placed after the blank-line `continue`
Iterate_countsAfterBlank(raw, out) ==
    LET n == IF Prepared[raw].line = <<>> THEN lineNum ELSE lineNum + 1 IN
    /\ scanned' = scanned + 1
    /\ text' = raw
    /\ lineNum' = n
    /\ corpus' = corpus
    /\ UNCHANGED <<call, conv, tok>>
    /\ IF out.err = NoErr
       THEN /\ sheet' = out.sheet
            /\ currentFile' = out.currentFile
            /\ currentTrack' = out.currentTrack
            /\ pendingIndices' = out.pendingIndices
            /\ UNCHANGED <<pc, ret>>
       ELSE /\ pc' = "failed"
            /\ ret' = [sheet |-> NilSheet, err |-> LineError(n, out.err)]
            /\ UNCHANGED <<sheet, currentFile, currentTrack, pendingIndices>>

\* The loop body on raw line `raw` up to the end of the iteration, `out`
\* being what the line's processing yields: lineNum++, then either the new
\* locals or `return nil, fmt.Errorf("line %d: ...", lineNum)`.
Iterate(raw, out) ==
    /\ scanned' = scanned + 1
    /\ text' = raw
    /\ lineNum' = lineNum + 1
    /\ corpus' = corpus
    /\ UNCHANGED <<call, conv, tok>>
    /\ IF out.err = NoErr
       THEN /\ sheet' = out.sheet
            /\ currentFile' = out.currentFile
            /\ currentTrack' = out.currentTrack
            /\ pendingIndices' = out.pendingIndices
            /\ UNCHANGED <<pc, ret>>
       ELSE /\ pc' = "failed"
            /\ ret' = [sheet |-> NilSheet, err |-> LineError(lineNum + 1, out.err)]
            /\ UNCHANGED <<sheet, currentFile, currentTrack, pendingIndices>>

\* line == "": continue
ScanBlank ==
    \E raw \in corpus :
        /\ CanScan
        /\ Prepared[raw].line = <<>>
        /\ Iterate(raw, WithSheet(sheet))

\* smartSplit returns an error
ScanBadQuoting ==
    \E raw \in corpus :
        /\ CanScan
        /\ Prepared[raw].line # <<>>
        /\ Prepared[raw].err # NoErr
        /\ Iterate(raw, Fail("invalid quoting: " \o Prepared[raw].err))

\* len(parts) == 0: continue
ScanNoParts ==
    \E raw \in corpus :
        /\ CanScan
        /\ Prepared[raw].line # <<>>
        /\ Prepared[raw].err = NoErr
        /\ Len(Prepared[raw].parts) = 0
        /\ Iterate(raw, WithSheet(sheet))

CmdREM ==
    \E raw \in corpus :
        CanScan /\ Dispatches(raw, wREM) /\ Iterate(raw, caseREM(Args(raw)))

CmdCATALOG ==
    \E raw \in corpus :
        CanScan /\ Dispatches(raw, wCATALOG) /\ Iterate(raw, caseCATALOG(Args(raw)))

CmdCDTEXTFILE ==
    \E raw \in corpus :
        CanScan /\ Dispatches(raw, wCDTEXTFILE)
        /\ Iterate(raw, caseCDTEXTFILE(Args(raw)))

CmdTITLE ==
    \E raw \in corpus :
        CanScan /\ Dispatches(raw, wTITLE) /\ Iterate(raw, caseTITLE(Args(raw)))

CmdPERFORMER ==
    \E raw \in corpus :
        CanScan /\ Dispatches(raw, wPERFORMER)
        /\ Iterate(raw, casePERFORMER(Args(raw)))

CmdSONGWRITER ==
    \E raw \in corpus :
        CanScan /\ Dispatches(raw, wSONGWRITER)
        /\ Iterate(raw, caseSONGWRITER(Args(raw)))

CmdFILE ==
    \E raw \in corpus :
        CanScan /\ Dispatches(raw, wFILE) /\ Iterate(raw, caseFILE(Args(raw)))

CmdTRACK ==
    \E raw \in corpus :
        CanScan /\ Dispatches(raw, wTRACK) /\ Iterate(raw, caseTRACK(Args(raw)))

CmdINDEX ==
    \E raw \in corpus :
        CanScan /\ Dispatches(raw, wINDEX) /\ Iterate(raw, caseINDEX(Args(raw)))

CmdPREGAP ==
    \E raw \in corpus :
        CanScan /\ Dispatches(raw, wPREGAP) /\ Iterate(raw, casePREGAP(Args(raw)))

CmdPOSTGAP ==
    \E raw \in corpus :
        CanScan /\ Dispatches(raw, wPOSTGAP) /\ Iterate(raw, casePOSTGAP(Args(raw)))

CmdFLAGS ==
    \E raw \in corpus :
        CanScan /\ Dispatches(raw, wFLAGS) /\ Iterate(raw, caseFLAGS(Args(raw)))

CmdISRC ==
    \E raw \in corpus :
        CanScan /\ Dispatches(raw, wISRC) /\ Iterate(raw, caseISRC(Args(raw)))

\* any other command word
CmdNone ==
    \E raw \in corpus :
        /\ CanScan
        /\ Prepared[raw].line # <<>>
        /\ Prepared[raw].err = NoErr
        /\ Len(Prepared[raw].parts) > 0
        /\ Prepared[raw].command \notin Commands
        /\ Iterate(raw, caseNone(Args(raw)))

\* the final pass with every Track referred to the first File
WireParents_firstFile(s) ==
    [s EXCEPT !.Files =
        [f \in 1..Len(s.Files) |->
            [s.Files[f] EXCEPT
                !.parentSheet = TRUE,
                !.Tracks = [t \in 1..Len(s.Files[f].Tracks) |->
                               [s.Files[f].Tracks[t] EXCEPT !.parentFile = 1]]]]]

\* the final pass: every File refers to the sheet, every Track to its File
WireParents(s) ==
    [s EXCEPT !.Files =
        [f \in 1..Len(s.Files) |->
            [s.Files[f] EXCEPT
                !.parentSheet = TRUE,
                !.Tracks = [t \in 1..Len(s.Files[f].Tracks) |->
                               [s.Files[f].Tracks[t] EXCEPT !.parentFile = f]]]]]

\* scanner.Scan() returns false at the end of the input: wire and return
Finish ==
    /\ pc = "scan"
    /\ sheet' = WireParents(sheet)
    /\ pc' = "done"
    /\ ret' = [sheet |-> SheetPtr, err |-> NoError]
    /\ UNCHANGED <<corpus, scanned, text, currentFile, currentTrack,
                   pendingIndices, lineNum, call, conv, tok>>

\* scanner.Scan() returns false because the reader failed (scanner.Err() != nil)
ReadError ==
    /\ pc = "scan"
    /\ pc' = "failed"
    /\ ret' = [sheet |-> NilSheet, err |-> [line |-> 0, msg |-> "error reading input"]]
    /\ UNCHANGED <<corpus, scanned, text, sheet, currentFile, currentTrack,
                   pendingIndices, lineNum, call, conv, tok>>

\* Track.Duration that clears the track's back-reference once it has used it
AfterDuration_dropsParent(s, ref) ==
    [s EXCEPT !.Files[ref.f].Tracks[ref.t].parentFile = 0]

\* The sheet after Track.Duration() on the track at ref: Duration and
\* getTrackDuration assign only to their own locals (allTracks, currentTrack,
\* nextTrack, startTime, nextStartTime), allTracks being a fresh slice or
\* f.Tracks itself, which is only read.
AfterDuration(s, ref) == s

\* the caller of Parse calls Duration() on a track of the returned sheet
CallDuration ==
    /\ pc = "done"
    /\ \E i \in 1..Len(AllTrackRefs(sheet)) :
           LET ref == AllTrackRefs(sheet)[i] IN
           /\ call' = [ref |-> ref, value |-> Duration(sheet, ref)]
           /\ sheet' = AfterDuration(sheet, ref)
    /\ UNCHANGED <<corpus, scanned, text, currentFile, currentTrack,
                   pendingIndices, lineNum, pc, ret, conv, tok>>

Next ==
    \/ ScanBlank
    \/ ScanBadQuoting
    \/ ScanNoParts
    \/ CmdREM
    \/ CmdCATALOG
    \/ CmdCDTEXTFILE
    \/ CmdTITLE
    \/ CmdPERFORMER
    \/ CmdSONGWRITER
    \/ CmdFILE
    \/ CmdTRACK
    \/ CmdINDEX
    \/ CmdPREGAP
    \/ CmdPOSTGAP
    \/ CmdFLAGS
    \/ CmdISRC
    \/ CmdNone
    \/ Finish
    \/ ReadError
    \/ CallDuration

Spec == Init /\ [][Next]_vars

-----------------------------------------------------------------------------
(* The Timecode conversions, called by a user of the package: a Timecode is *)
(* turned into its frame count and back, or a frame count into a Timecode   *)
(* and back.                                                                 *)

parseVars == <<corpus, scanned, text, sheet, currentFile, currentTrack,
               pendingIndices, lineNum, pc, ret, call>>

\* Largest minutes value of the small timecodes given to the conversions.
MaxMinutes == 1

\* the last minute whose first frame has a frame count within int
LastMinute == MaxInt \div (60 * FramesPerSecond)

\* the timecodes given to TotalFrames: every canonical timecode of the first
\* minutes and of the last minute
TimecodeInputs ==
    { Timecode(m, sec, f) : m \in (0..MaxMinutes) \cup {LastMinute},
                            sec \in 0..59, f \in 0..(FramesPerSecond - 1) }

\* the frame counts given to NewTimecodeFromFrames: those of the first
\* minutes, some negative ones, and the ends of the int range
FrameInputs ==
    ((0 - FramesPerSecond)..((MaxMinutes + 1) * 60 * FramesPerSecond))
        \cup {MinInt, MinInt + 1, MaxInt - 1, MaxInt}

InitTimecode ==
    /\ corpus = {}
    /\ ParseEntry
    /\ tok = NoTok
    /\ conv \in
           { [kind |-> "tc", step |-> 0, in |-> tc, mid |-> 0, out |-> 0] :
                 tc \in TimecodeInputs }
           \cup { [kind |-> "n", step |-> 0, in |-> n, mid |-> 0, out |-> 0] :
                      n \in FrameInputs }

\* tc.TotalFrames(), on the timecode given or on the one just constructed
CallTotalFrames ==
    /\ \/ /\ conv.kind = "tc" /\ conv.step = 0
          /\ conv' = [conv EXCEPT !.step = 1, !.mid = TotalFrames(conv.in)]
       \/ /\ conv.kind = "n" /\ conv.step = 1
          /\ conv' = [conv EXCEPT !.step = 2, !.out = TotalFrames(conv.mid)]
    /\ UNCHANGED <<parseVars, tok>>

\* NewTimecodeFromFrames(n), on the frame count given or on the one just computed
CallNewTimecodeFromFrames ==
    /\ \/ /\ conv.kind = "n" /\ conv.step = 0
          /\ conv' = [conv EXCEPT !.step = 1, !.mid = NewTimecodeFromFrames(conv.in)]
       \/ /\ conv.kind = "tc" /\ conv.step = 1
          /\ conv' = [conv EXCEPT !.step = 2, !.out = NewTimecodeFromFrames(conv.mid)]
    /\ UNCHANGED <<parseVars, tok>>

NextTimecode ==
    \/ CallTotalFrames
    \/ CallNewTimecodeFromFrames

SpecTimecode == InitTimecode /\ [][NextTimecode]_vars

-----------------------------------------------------------------------------
(* The tokenizer on its own: smartSplit is called by Parse only, on a line  *)
(* that is trimmed and not empty.                                            *)

\* Largest number of runes of a line given to the tokenizer.
MaxLineLen == 4

\* the runes of those lines: a letter, a two-byte letter, the quote and the
\* two whitespace runes
LineRunes == {"a", "é", QUOTE, SPACE, TAB}

\* every trimmed, non-empty line of at most MaxLineLen of these runes
LineInputs ==
    { line \in UNION { [1..n -> LineRunes] : n \in 1..MaxLineLen } :
          ~IsSpace(line[1]) /\ ~IsSpace(line[Len(line)]) }

InitTokenizer ==
    /\ corpus = {}
    /\ ParseEntry
    /\ conv = NoConv
    /\ tok \in { [NoTok EXCEPT !.step = "line", !.line = line] :
                     line \in LineInputs }

\* parts, err := smartSplit(line)
CallSmartSplit ==
    /\ tok.step = "line"
    /\ tok' = [tok EXCEPT !.step = "split", !.res = smartSplit(tok.line)]
    /\ UNCHANGED <<parseVars, conv>>

NextTokenizer == CallSmartSplit

SpecTokenizer == InitTokenizer /\ [][NextTokenizer]_vars

-----------------------------------------------------------------------------
(* Duration inference on returned sheets *)

\* the tracks of the returned sheet in file-then-track order
Order == AllTrackRefs(sheet)

NumberAt(i) == TrackAt(sheet, Order[i]).Number
StartAt(i) == AsDuration(StartTime(TrackAt(sheet, Order[i])))
DurationAt(i) == Duration(sheet, Order[i])
SameFile(i, j) == Order[i].f = Order[j].f
UniqueNumber(i) == \A j \in 1..Len(Order) : NumberAt(j) = NumberAt(i) => j = i
NonNegative(d) == IF d < 0 THEN 0 ELSE d

\* the track directly after track i is numbered one more and lies in the same file
AdjacentSuccessor(i) ==
    /\ i + 1 <= Len(Order)
    /\ NumberAt(i + 1) = NumberAt(i) + 1
    /\ SameFile(i, i + 1)

\* C1: in a returned sheet, a track directly followed, in the same file, by
\* the track numbered one more has as duration the difference of the two
\* start times, or zero when that difference is negative - whatever the track
\* numbers, repeated ones included.
C1_AdjacentDuration ==
    pc = "done" =>
        \A i \in 1..Len(Order) :
            AdjacentSuccessor(i) =>
                DurationAt(i) = NonNegative(StartAt(i + 1) - StartAt(i))

\* C2: in a returned sheet the duration of the track that comes last in
\* file-then-track order is zero, whatever the track numbers.
C2_LastTrackZero ==
    (pc = "done" /\ Len(Order) > 0) => DurationAt(Len(Order)) = 0

\* C3: in a returned sheet, a track whose numeric successor (the track
\* numbered one more) belongs to another file has duration zero.
C3_SuccessorInOtherFileZero ==
    pc = "done" =>
        \A i \in 1..Len(Order) :
            ( /\ \E j \in 1..Len(Order) : NumberAt(j) = NumberAt(i) + 1
              /\ \A j \in 1..Len(Order) :
                     NumberAt(j) = NumberAt(i) + 1 => ~SameFile(i, j) )
            => DurationAt(i) = 0

\* C4 as stated: for a track whose number is unique in the sheet, if a track
\* numbered one more exists in the same file, at any position, the duration
\* is the non-negative difference of the start times of that track and this
\* one.  (Stated for successors that come later in the file, the reading most
\* favourable to the claim.)
C4_SuccessorAnywhereInFile ==
    pc = "done" =>
        \A i \in 1..Len(Order) :
            ( /\ UniqueNumber(i)
              /\ \E j \in (i + 1)..Len(Order) :
                     NumberAt(j) = NumberAt(i) + 1 /\ SameFile(i, j) )
            => \E j \in (i + 1)..Len(Order) :
                   /\ NumberAt(j) = NumberAt(i) + 1
                   /\ SameFile(i, j)
                   /\ DurationAt(i) = NonNegative(StartAt(j) - StartAt(i))

\* C4 (amended): for a track whose number is unique in the sheet, the
\* duration is the non-negative difference of the start times when the track
\* directly after it in file-then-track order is numbered one more and lies
\* in the same file, and zero in every other case - also when a track
\* numbered one more exists elsewhere in the file or the sheet.
C4_SuccessorDirectlyAfter ==
    pc = "done" =>
        \A i \in 1..Len(Order) :
            UniqueNumber(i) =>
                DurationAt(i) =
                    IF AdjacentSuccessor(i)
                    THEN NonNegative(StartAt(i + 1) - StartAt(i))
                    ELSE 0

\* a returned sheet in which a uniquely numbered track has its numeric
\* successor later in the same file, starting later, but not directly after it
C4_Witness ==
    /\ pc = "done"
    /\ \E i \in 1..Len(Order) : \E j \in 1..Len(Order) :
           /\ UniqueNumber(i)
           /\ NumberAt(j) = NumberAt(i) + 1
           /\ SameFile(i, j)
           /\ j > i + 1
           /\ StartAt(j) > StartAt(i)
           /\ DurationAt(i) = 0

-----------------------------------------------------------------------------
(* Tokenizer errors and the command switch *)

\* the trimmed text of the line delivered last
LastLine == TrimSpace(text)

OddQuotes(line) ==
    Cardinality({i \in 1..Len(line) : line[i] = QUOTE}) % 2 = 1

\* Parse returned nil and the error "line <n>: <cause>"
FailedWith(n, cause) ==
    /\ pc = "failed"
    /\ ret = [sheet |-> NilSheet, err |-> LineError(n, cause)]

\* C5: a non-blank line with an odd number of double quotes (it ends inside
\* a quoted span) makes Parse fail on that line with the cause "invalid
\* quoting: mismatched quotes", whatever its other characters and their
\* encoded lengths.
C5_UnterminatedQuoteRejected ==
    (scanned > 0 /\ LastLine # <<>> /\ OddQuotes(LastLine))
        => FailedWith(scanned, "invalid quoting: mismatched quotes")

\* the line opens with a quoted word: a double quote, then a character that
\* is neither a quote nor white space
QuotedCommandWord(line) ==
    /\ Len(line) >= 2
    /\ line[1] = QUOTE
    /\ line[2] # QUOTE
    /\ ~IsSpace(line[2])

\* C6: a trimmed, non-blank line whose first character is a double quote, so
\* that its command word would be quoted, makes Parse fail on that line with
\* the cause "command cannot be quoted"; no such line is dispatched as a
\* command.
C6_QuotedCommandRejected ==
    (scanned > 0 /\ QuotedCommandWord(LastLine))
        => FailedWith(scanned, "invalid quoting: command cannot be quoted")

RECURSIVE FirstWord(_)
\* the text of a line up to its first space or tab
FirstWord(line) ==
    IF line = <<>> \/ IsSpace(Head(line)) THEN <<>>
    ELSE <<Head(line)>> \o FirstWord(Tail(line))

\* the step processes one more line and leaves the parser's state as it was
LineIgnored ==
    /\ pc' = "scan"
    /\ ret' = ret
    /\ sheet' = sheet
    /\ currentFile' = currentFile
    /\ currentTrack' = currentTrack
    /\ pendingIndices' = pendingIndices

\* C7 as stated: a line whose command word is none of the thirteen commands
\* never makes Parse fail, whatever the rest of its text, and changes nothing.
C7_UnknownWordAnyText ==
    [][ ( /\ scanned' = scanned + 1
          /\ TrimSpace(text') # <<>>
          /\ \A i \in 1..Len(FirstWord(TrimSpace(text'))) :
                 FirstWord(TrimSpace(text'))[i] # QUOTE
          /\ ToUpper(FirstWord(TrimSpace(text'))) \notin Commands )
        => LineIgnored ]_vars

\* C7 (amended): a line that the tokenizer accepts and whose command word
\* (first token, uppercased) is none of the thirteen commands never makes
\* Parse fail and leaves sheet, current file, current track and pending
\* indices unchanged.
C7_UnknownCommandIgnored ==
    [][ ( /\ scanned' = scanned + 1
          /\ Prepared[text'].err = NoErr
          /\ Len(Prepared[text'].parts) > 0
          /\ Prepared[text'].command \notin Commands )
        => LineIgnored ]_vars

\* an unknown command has just been processed, after lines that put a
\* remark and a title into the sheet
C7_Witness ==
    /\ pc = "scan"
    /\ scanned >= 3
    /\ Prepared[text].err = NoErr
    /\ Len(Prepared[text].parts) > 0
    /\ Prepared[text].command \notin Commands
    /\ sheet.Rem # <<>>
    /\ sheet.Title # <<>>

\* C8: when a line is in error Parse stops at it: it returns no sheet and an
\* error whose line number is the 1-based position of that line in the raw
\* input, blank and ignored lines counted, and no later line is read.
C8_FirstErrorAborts ==
    /\ pc = "failed" =>
           /\ ret.sheet = NilSheet
           /\ ret.err # NoError
           /\ ~ENABLED Next
           /\ ret.err.msg # "error reading input" =>
                  (scanned >= 1 /\ ret.err.line = scanned)
    /\ pc = "done" => (ret.sheet = SheetPtr /\ ret.err = NoError)

\* Parse failed on the third line, after two lines that stored nothing
\* (blank, without tokens or ignored)
C8_Witness ==
    /\ FailedWith(3, "invalid quoting: mismatched quotes")
    /\ scanned = 3
    /\ sheet = NewSheet

\* no FILE command has been accepted so far
NoFileSeen == sheet.Files = <<>>

\* no TRACK command has been accepted since the last FILE command
NoTrackInScope ==
    NoFileSeen \/ sheet.Files[Len(sheet.Files)].Tracks = <<>>

\* the step dispatches a line with this command word
Runs(command) ==
    /\ scanned' = scanned + 1
    /\ Prepared[text'].err = NoErr
    /\ Len(Prepared[text'].parts) > 0
    /\ Prepared[text'].command = command

FailsWith(cause) ==
    /\ pc' = "failed"
    /\ ret' = [sheet |-> NilSheet, err |-> LineError(scanned', cause)]

\* C9: in every parser state TRACK fails with its missing-context error when
\* no FILE has been seen, INDEX is rejected when no FILE has been seen, and
\* PREGAP, POSTGAP, FLAGS and ISRC fail with their missing-context error when
\* no track is in scope, which includes the lines between a FILE command and
\* the next TRACK command.
C9_ScopeEnforced ==
    [][ /\ (Runs(wTRACK) /\ NoFileSeen) =>
               FailsWith("TRACK command found outside of a FILE context")
        /\ (Runs(wINDEX) /\ NoFileSeen) =>
               (pc' = "failed" /\ ret'.sheet = NilSheet /\ ret'.err.line = scanned')
        /\ (Runs(wPREGAP) /\ NoTrackInScope) =>
               FailsWith("PREGAP command found outside of a TRACK context")
        /\ (Runs(wPOSTGAP) /\ NoTrackInScope) =>
               FailsWith("POSTGAP command found outside of a TRACK context")
        /\ (Runs(wFLAGS) /\ NoTrackInScope) =>
               FailsWith("FLAGS command found outside of a TRACK context")
        /\ (Runs(wISRC) /\ NoTrackInScope) =>
               FailsWith("ISRC command found outside of a TRACK context") ]_vars

\* FLAGS was rejected after a second FILE command, the first file having a track
C9_Witness ==
    /\ FailedWith(scanned, "FLAGS command found outside of a TRACK context")
    /\ Len(sheet.Files) = 2
    /\ sheet.Files[1].Tracks # <<>>
    /\ sheet.Files[2].Tracks = <<>>

\* the Index an accepted INDEX line declares
DeclaredIndex(raw) ==
    Index(Atoi(Prepared[raw].args[1]).val, parseTimecode(Prepared[raw].args[2]).tc)

\* C10: an INDEX line accepted after FILE and before the file's first TRACK
\* is appended to the pending buffer; an accepted TRACK command creates one
\* track whose index list is the buffer, in order, and empties the buffer;
\* an INDEX line accepted with a track in scope is appended after the
\* indices that track already has.
C10_PendingFlushedOnTrack ==
    [][ LET n == Len(sheet.Files) IN
        /\ (Runs(wTRACK) /\ pc' = "scan") =>
               /\ n > 0
               /\ Len(sheet'.Files) = n
               /\ sheet'.Files[n].Tracks =
                      Append(sheet.Files[n].Tracks,
                             [NewTrack(Atoi(Prepared[text'].args[1]).val,
                                       ToUpper(Prepared[text'].args[2]))
                                 EXCEPT !.Indices = pendingIndices])
               /\ pendingIndices' = <<>>
        /\ (Runs(wINDEX) /\ pc' = "scan" /\ NoTrackInScope) =>
               /\ sheet' = sheet
               /\ pendingIndices' = Append(pendingIndices, DeclaredIndex(text'))
        /\ (Runs(wINDEX) /\ pc' = "scan" /\ ~NoTrackInScope) =>
               /\ pendingIndices' = <<>>
               /\ LET k == Len(sheet.Files[n].Tracks) IN
                  /\ Len(sheet'.Files[n].Tracks) = k
                  /\ sheet'.Files[n].Tracks[k].Indices =
                         Append(sheet.Files[n].Tracks[k].Indices,
                                DeclaredIndex(text')) ]_vars

\* TRACK has just been accepted with two indices in the buffer: they are the
\* new track's indices, in order, and the buffer is empty
C10_Witness ==
    /\ pc = "scan"
    /\ scanned > 0
    /\ Prepared[text].command = wTRACK
    /\ currentTrack # NilTrack
    /\ Len(CurTrack.Indices) = 2
    /\ CurTrack.Indices[1].Number = 0
    /\ CurTrack.Indices[2].Number = 1
    /\ pendingIndices = <<>>

-----------------------------------------------------------------------------
(* Indices and file boundaries *)

\* C11: no buffered index crosses a file boundary.  Buffered indices exist
\* only while the file opened last has no track yet; an accepted FILE command
\* appends one file without tracks, leaves every earlier file and its tracks
\* as they were and leaves the buffer empty, so the indices buffered under a
\* file that declares no track reach no track of any file.
C11_PendingDroppedOnFile ==
    /\ [](pendingIndices # <<>> => NoTrackInScope /\ ~NoFileSeen)
    /\ [][ (Runs(wFILE) /\ pc' = "scan") =>
               /\ sheet'.Files =
                      Append(sheet.Files,
                             NewFile(Prepared[text'].args[1],
                                     ToUpper(Prepared[text'].args[2])))
               /\ pendingIndices' = <<>> ]_vars

\* the input FILE, INDEX, FILE, TRACK was parsed: the index buffered under
\* the first file is in no track of the returned sheet
C11_Witness ==
    /\ pc = "done"
    /\ corpus = IndexLines
    /\ scanned = 4
    /\ Len(sheet.Files) = 2
    /\ sheet.Files[1].Tracks = <<>>
    /\ Len(sheet.Files[2].Tracks) = 1
    /\ sheet.Files[2].Tracks[1].Indices = <<>>

-----------------------------------------------------------------------------
(* Metadata commands *)

\* the command `command`, dispatched with at least one argument, stores its
\* first argument in `field` of the last track of the last file and nowhere
\* else when that file has a track, and in `field` of the sheet and nowhere
\* else when no track is in scope
SetsField(command, field) ==
    (Runs(command) /\ Len(Prepared[text'].args) >= 1) =>
        /\ pc' = "scan"
        /\ IF NoTrackInScope
           THEN sheet' = [sheet EXCEPT ![field] = Prepared[text'].args[1]]
           ELSE LET n == Len(sheet.Files)
                    k == Len(sheet.Files[n].Tracks)
                IN sheet' = [sheet EXCEPT !.Files[n].Tracks[k][field] =
                                              Prepared[text'].args[1]]

\* C12: TITLE, PERFORMER and SONGWRITER with at least one argument set that
\* field of the track in scope (the track opened last, no FILE command having
\* followed it) and leave the sheet-level field and everything else as they
\* were; with no track in scope (before the first TRACK, or after a FILE
\* command and before that file's first TRACK) they set the sheet-level
\* field and change no track.
C12_MetadataScope ==
    [][ /\ SetsField(wTITLE, "Title")
        /\ SetsField(wPERFORMER, "Performer")
        /\ SetsField(wSONGWRITER, "Songwriter") ]_vars

\* FILE, TRACK, PERFORMER, FILE, TITLE: the performer went to the track and
\* not to the sheet, the title given after the second FILE went to the sheet
\* and not to the track
C12_Witness ==
    /\ pc = "scan"
    /\ corpus = MetaLines
    /\ scanned = 5
    /\ Prepared[text].command = wTITLE
    /\ Len(sheet.Files) = 2
    /\ sheet.Files[2].Tracks = <<>>
    /\ Len(sheet.Files[1].Tracks) = 1
    /\ sheet.Files[1].Tracks[1].Performer = <<"p">>
    /\ sheet.Files[1].Tracks[1].Title = <<>>
    /\ sheet.Title = <<"T">>
    /\ sheet.Performer = <<>>

-----------------------------------------------------------------------------
(* Timecodes stored by the parser *)

\* minutes >= 0, 0 <= seconds <= 59, 0 <= frames < 75
Canonical(tc) ==
    /\ tc.Minutes >= 0
    /\ tc.Seconds >= 0 /\ tc.Seconds <= 59
    /\ tc.Frames >= 0 /\ tc.Frames < FramesPerSecond

\* C13: every Timecode stored in a sheet returned by a successful Parse (an
\* Index time, a Pregap, a Postgap) has minutes >= 0, 0 <= seconds <= 59 and
\* 0 <= frames < 75.
C13_StoredTimecodesCanonical ==
    pc = "done" =>
        \A i \in 1..Len(Order) :
            LET t == TrackAt(sheet, Order[i]) IN
            /\ Canonical(t.Pregap)
            /\ Canonical(t.Postgap)
            /\ \A k \in 1..Len(t.Indices) : Canonical(t.Indices[k].Time)

-----------------------------------------------------------------------------
(* Letter case of stored arguments *)

\* the token text as it is
Verbatim(token) == token

\* the file opened last and its last track, after the step
LastFile == sheet'.Files[Len(sheet'.Files)]
LastTrack == LastFile.Tracks[Len(LastFile.Tracks)]

\* what an accepted command stores of its arguments, the file type and the
\* track type being stored as TypeText(token) and every other value as the
\* token text
StoresArguments(TypeText(_)) ==
    LET args == Prepared[text'].args IN
    /\ (Runs(wFILE) /\ pc' = "scan") =>
           (LastFile.Name = args[1] /\ LastFile.Type = TypeText(args[2]))
    /\ (Runs(wTRACK) /\ pc' = "scan") => LastTrack.Type = TypeText(args[2])
    /\ (Runs(wTITLE) /\ pc' = "scan") =>
           IF NoTrackInScope THEN sheet'.Title = args[1]
           ELSE LastTrack.Title = args[1]
    /\ (Runs(wPERFORMER) /\ pc' = "scan") =>
           IF NoTrackInScope THEN sheet'.Performer = args[1]
           ELSE LastTrack.Performer = args[1]
    /\ (Runs(wSONGWRITER) /\ pc' = "scan") =>
           IF NoTrackInScope THEN sheet'.Songwriter = args[1]
           ELSE LastTrack.Songwriter = args[1]
    /\ (Runs(wCATALOG) /\ pc' = "scan") => sheet'.Catalog = args[1]
    /\ (Runs(wCDTEXTFILE) /\ pc' = "scan") => sheet'.CDTextFile = args[1]
    /\ (Runs(wISRC) /\ pc' = "scan") => LastTrack.ISRC = args[1]
    /\ (Runs(wFLAGS) /\ pc' = "scan") =>
           LastTrack.Flags = TrackAt(sheet, currentTrack).Flags \o args
    /\ (Runs(wREM) /\ pc' = "scan" /\ Len(args) > 0) =>
           sheet'.Rem = Append(sheet.Rem, Join(args, <<SPACE>>))

\* C14 as stated: only the command word is case-normalized, every argument
\* value stored in the sheet (file name, file type, track type, title,
\* performer, songwriter, catalog, CD-text path, ISRC, flags, remarks) is
\* exactly the token text.
C14_ArgumentsVerbatim == [][StoresArguments(Verbatim)]_vars

\* C14: the command word and the two type arguments are case-normalized:
\* the file type of FILE and the track type of TRACK are stored uppercased;
\* every other argument value stored in the sheet (file name, title,
\* performer, songwriter, catalog, CD-text path, ISRC, flags, remarks) is
\* exactly the token text, letter case unchanged.
C14_TypesUppercasedOthersVerbatim == [][StoresArguments(ToUpper)]_vars

\* FILE "a" w, TRACK 01 a and ISRC x were accepted: the file is named a and
\* typed W, the track is typed A and its ISRC is x
C14_Witness ==
    /\ pc = "scan"
    /\ corpus = TrackLines
    /\ scanned = 3
    /\ Prepared[text].command = wISRC
    /\ Len(sheet.Files) = 1
    /\ sheet.Files[1].Name = <<"a">>
    /\ sheet.Files[1].Type = <<"W">>
    /\ Len(sheet.Files[1].Tracks) = 1
    /\ sheet.Files[1].Tracks[1].Type = <<"A">>
    /\ sheet.Files[1].Tracks[1].ISRC = <<"x">>

-----------------------------------------------------------------------------
(* Remarks *)

\* C15 as stated: every REM line, in any scope, appends exactly one remark,
\* the remaining arguments joined by single spaces.
C15_EveryRemAppends ==
    [][ Runs(wREM) =>
            /\ pc' = "scan"
            /\ sheet' = [sheet EXCEPT !.Rem =
                             Append(@, Join(Prepared[text'].args, <<SPACE>>))] ]_vars

\* C15: a REM line with at least one argument, in any scope, appends exactly
\* one remark, the arguments joined by single spaces, and changes nothing
\* else; a REM line without arguments is accepted and changes nothing; no
\* other line changes the remark list.  The remark list of a returned sheet
\* therefore has one entry per REM line that has an argument, in input order.
C15_RemWithArgumentsAppends ==
    [][ /\ (Runs(wREM) /\ Len(Prepared[text'].args) > 0) =>
               /\ pc' = "scan"
               /\ sheet' = [sheet EXCEPT !.Rem =
                                Append(@, Join(Prepared[text'].args, <<SPACE>>))]
        /\ (Runs(wREM) /\ Len(Prepared[text'].args) = 0) =>
               (pc' = "scan" /\ sheet' = sheet)
        /\ ~Runs(wREM) => sheet'.Rem = sheet.Rem ]_vars

\* FILE, TRACK, `REM x` and `REM "a b"  c` were accepted, then a bare REM
\* with the track in scope: two remarks, in input order, the second joined
\* by single spaces
C15_Witness ==
    /\ pc = "scan"
    /\ corpus = RemLines
    /\ scanned = 5
    /\ text = wREM
    /\ ~NoTrackInScope
    /\ sheet.Rem = << <<"x">>, <<"a", SPACE, "b", SPACE, "c">> >>

-----------------------------------------------------------------------------
(* Frame-count conversions *)

\* the frame count of tc is within int: 4500 * minutes + 75 * seconds +
\* frames <= MaxInt, for a canonical tc
FitsInt(tc) ==
    tc.Minutes <= (MaxInt - (tc.Seconds * FramesPerSecond + tc.Frames))
                      \div (60 * FramesPerSecond)

\* a Timecode went to its frame count and back / a frame count went to its
\* Timecode and back
WentRound(kind) == conv.kind = kind /\ conv.step = 2

\* C16 as stated: for every canonical Timecode tc,
\* NewTimecodeFromFrames(tc.TotalFrames()) = tc, and for every n >= 0,
\* NewTimecodeFromFrames(n).TotalFrames() = n.
C16_RoundTrip ==
    /\ (WentRound("tc") /\ Canonical(conv.in)) => conv.out = conv.in
    /\ (WentRound("n") /\ conv.in >= 0) => conv.out = conv.in

\* C16: for every canonical Timecode tc whose frame count is within the
\* range of int, NewTimecodeFromFrames(tc.TotalFrames()) = tc, and for every
\* int n >= 0, NewTimecodeFromFrames(n).TotalFrames() = n.
C16_RoundTripWithinInt ==
    /\ (WentRound("tc") /\ Canonical(conv.in) /\ FitsInt(conv.in)) =>
           conv.out = conv.in
    /\ (WentRound("n") /\ conv.in >= 0) => conv.out = conv.in

\* the largest timecode whose frame count is within int went round and came
\* back as it was
C16_Witness ==
    /\ WentRound("tc")
    /\ conv.in.Minutes = LastMinute
    /\ FitsInt(conv.in)
    /\ ~FitsInt([conv.in EXCEPT !.Frames = @ + 1])
    /\ conv.mid = MaxInt
    /\ conv.out = conv.in

\* C17: for every int n, negative ones included, NewTimecodeFromFrames(n)
\* has minutes >= 0, 0 <= seconds < 60 and 0 <= frames < 75, and for n < 0
\* it is the zero timecode.
C17_FromFramesCanonical ==
    /\ (conv.kind = "n" /\ conv.step >= 1) =>
           /\ Canonical(conv.mid)
           /\ conv.in < 0 => conv.mid = ZeroTimecode
    /\ WentRound("tc") =>
           /\ Canonical(conv.out)
           /\ conv.mid < 0 => conv.out = ZeroTimecode

\* NewTimecodeFromFrames was given the smallest int and returned 00:00:00
C17_Witness ==
    /\ conv.kind = "n"
    /\ conv.step >= 1
    /\ conv.in = MinInt
    /\ conv.mid = ZeroTimecode

-----------------------------------------------------------------------------
(* Duration as a query *)

-----------------------------------------------------------------------------
(* Shape of the tokens *)

\* the rune at position p of the line stands between an opening double
\* quote and its closing double quote
BetweenQuotes(line, p) ==
    /\ Cardinality({q \in 1..(p - 1) : line[q] = QUOTE}) % 2 = 1
    /\ \E q \in (p + 1)..Len(line) : line[q] = QUOTE

\* neither a double quote nor whitespace
IsLetter(r) == r # QUOTE /\ ~IsSpace(r)

WhitespaceOf(s) == SelectSeq(s, IsSpace)

\* the whitespace runes of the line that stand between quotes, in order
QuotedWhitespaceOf(line) ==
    LET at == {p \in 1..Len(line) : IsSpace(line[p]) /\ BetweenQuotes(line, p)}
        nth(k) == CHOOSE p \in at : Cardinality({q \in at : q < p}) = k - 1
    IN [k \in 1..Cardinality(at) |-> line[nth(k)]]

\* C19: for every line on which the tokenizer succeeds, no returned token is
\* empty, no token contains a double quote, the whitespace inside the tokens
\* is the whitespace of the line that stood between an opening and a closing
\* double quote, and nothing but the line's other runes makes up the rest of
\* the tokens (runs of unquoted whitespace and empty quoted spans produce no
\* token).
C19_TokensWellFormed ==
    (tok.step = "split" /\ tok.res.err = NoErr) =>
        LET parts == tok.res.parts
            all == Join(parts, <<>>)
        IN /\ \A k \in 1..Len(parts) : parts[k] # <<>>
           /\ \A k \in 1..Len(all) : all[k] # QUOTE
           /\ WhitespaceOf(all) = QuotedWhitespaceOf(tok.line)
           /\ SelectSeq(all, IsLetter) = SelectSeq(tok.line, IsLetter)
           /\ (SelectSeq(tok.line, IsLetter) = <<>> /\ WhitespaceOf(all) = <<>>)
                  => parts = <<>>

-----------------------------------------------------------------------------
(* Back-references *)

\* C20: back-references are wired at the end of a successful parse and never
\* before.  While lines are processed, and when Parse fails, no File has a
\* sheet back-reference and no Track has a file back-reference; in every
\* returned sheet every File refers to the sheet and every Track refers to
\* the one File whose track list contains it.
C20_BackReferencesWiredAtEnd ==
    \A f \in 1..Len(sheet.Files) :
        /\ sheet.Files[f].parentSheet = (pc = "done")
        /\ \A t \in 1..Len(sheet.Files[f].Tracks) :
               sheet.Files[f].Tracks[t].parentFile = IF pc = "done" THEN f ELSE 0

\* a sheet of two files was returned, the second file having a track, which
\* refers to the second file
C20_Witness ==
    /\ pc = "done"
    /\ Len(sheet.Files) = 2
    /\ sheet.Files[1].parentSheet
    /\ sheet.Files[2].parentSheet
    /\ sheet.Files[1].Tracks # <<>>
    /\ sheet.Files[2].Tracks # <<>>
    /\ sheet.Files[2].Tracks[1].parentFile = 2

-----------------------------------------------------------------------------
(* Lifetime of tracks and files *)

\* the position of the track in scope, read off the sheet: the last track of
\* the file opened last
InScope(f, t) ==
    /\ f = Len(sheet.Files)
    /\ t = Len(sheet.Files[f].Tracks)

\* every file keeps its name, its type and its tracks in place, and every
\* track for which Frozen holds keeps all of its fields
KeepsTracks(Frozen(_, _)) ==
    /\ Len(sheet'.Files) >= Len(sheet.Files)
    /\ \A f \in 1..Len(sheet.Files) :
           /\ sheet'.Files[f].Name = sheet.Files[f].Name
           /\ sheet'.Files[f].Type = sheet.Files[f].Type
           /\ sheet'.Files[f].parentSheet = sheet.Files[f].parentSheet
           /\ Len(sheet'.Files[f].Tracks) >= Len(sheet.Files[f].Tracks)
           /\ \A t \in 1..Len(sheet.Files[f].Tracks) :
                  Frozen(f, t) => sheet'.Files[f].Tracks[t] = sheet.Files[f].Tracks[t]

NotInScope(f, t) == ~InScope(f, t)
AnyTrack(f, t) == TRUE

\* C21: a track is mutated only while it is the track in scope.  A line
\* changes no field of any track other than the last track of the file
\* opened last, a TRACK or FILE command changes no field of any existing
\* track, no line changes the name or the type of a file or removes or
\* moves a track, and the end of the input changes nothing but the
\* back-references.
C21_TracksFrozenOutOfScope ==
    [][ /\ (pc = "scan" /\ scanned' = scanned + 1) => KeepsTracks(NotInScope)
        /\ (Runs(wTRACK) \/ Runs(wFILE)) => KeepsTracks(AnyTrack)
        /\ (pc = "scan" /\ pc' = "done") => sheet' = WireParents(sheet) ]_vars

\* FILE, TRACK, POSTGAP, TRACK, PREGAP: the first track has the postgap it
\* was given while in scope and no pregap, the second track has the pregap
C21_Witness ==
    /\ pc = "scan"
    /\ corpus = TrackLines
    /\ scanned = 5
    /\ Prepared[text].command = wPREGAP
    /\ Len(sheet.Files) = 1
    /\ Len(sheet.Files[1].Tracks) = 2
    /\ sheet.Files[1].Tracks[1].Postgap = Timecode(0, 0, 3)
    /\ sheet.Files[1].Tracks[1].Pregap = ZeroTimecode
    /\ sheet.Files[1].Tracks[2].Pregap = Timecode(0, 0, 2)
    /\ sheet.Files[1].Tracks[2].Postgap = ZeroTimecode

-----------------------------------------------------------------------------
(* The parser's locals *)

\* C22: after every processed line, if a track is in scope then a file is in
\* scope, the current file is the last element of sheet.Files, the current
\* track is the last element of the current file's track list and the
\* pending-index buffer is empty; the buffer is non-empty only when a file
\* is in scope and no track is in scope.  The current file, when there is
\* one, always is the last file of the sheet, and a track is in scope
\* exactly when that file has a track.
C22_ParserStateInvariant ==
    /\ currentTrack # NilTrack =>
           /\ currentFile # 0
           /\ currentFile = Len(sheet.Files)
           /\ currentTrack = [f |-> currentFile,
                              t |-> Len(sheet.Files[currentFile].Tracks)]
           /\ currentTrack.t > 0
           /\ pendingIndices = <<>>
    /\ pendingIndices # <<>> => (currentFile # 0 /\ currentTrack = NilTrack)
    /\ currentFile = Len(sheet.Files)
    /\ (currentTrack = NilTrack) = NoTrackInScope

\* the second file's first track has just been opened with two buffered
\* indices: it is the current track, the second file is the current file
\* and the buffer is empty again
C22_Witness ==
    /\ pc = "scan"
    /\ scanned > 0
    /\ Prepared[text].command = wTRACK
    /\ Len(sheet.Files) = 2
    /\ currentFile = 2
    /\ currentTrack = [f |-> 2, t |-> 1]
    /\ Len(sheet.Files[2].Tracks[1].Indices) = 2
    /\ pendingIndices = <<>>

-----------------------------------------------------------------------------
(* Duration and track numbers *)

\* the first track, in file-then-track order, with the number of track i
FirstWithNumber(i) ==
    CHOOSE k \in 1..Len(Order) :
        /\ NumberAt(k) = NumberAt(i)
        /\ \A j \in 1..(k - 1) : NumberAt(j) # NumberAt(i)

\* what track k and the track directly after it give: their distance in
\* time when the next track has the next number, is in the same file and
\* does not start earlier, else zero
FromDirectSuccessor(k) ==
    IF /\ k + 1 <= Len(Order)
       /\ NumberAt(k + 1) = NumberAt(k) + 1
       /\ SameFile(k, k + 1)
    THEN NonNegative(StartAt(k + 1) - StartAt(k))
    ELSE 0

====
